---- MODULE Spec2Model ----
(***************************************************************************)
(* Master work schedules of the auto-service booking platform:             *)
(* core/models.py (WorkSchedule and the lookup helpers), core/forms.py     *)
(* (WorkScheduleForm) and core/views.py (work_schedule_create / _edit /    *)
(* _delete), and the orders a master is assigned to (Order, order_create,  *)
(* autoservice_order_assign_master and the status views).                  *)
(*                                                                         *)
(* Dates are day ordinals, day 1 being 2025-01-01 (a Wednesday).  Times of *)
(* day are minutes since midnight.  A custom_days string is the sequence   *)
(* of its characters.                                                      *)
(***************************************************************************)
EXTENDS Integers, Sequences, FiniteSets, TLC

VARIABLES db, nextPk, today, family, last, call, orders, inflight

vars == <<db, nextPk, today, family, last, call, orders, inflight>>

(***************************************************************************)
(* Values                                                                  *)
(***************************************************************************)
\* Python None for a date, a time or a primary key
None == -1

Digits == {"0", "1", "2", "3", "4", "5", "6", "7", "8", "9"}

\* str.split(',') of a non-empty or empty string: the list of the pieces
RECURSIVE SplitFrom(_, _, _)
SplitFrom(s, i, cur) ==
    IF i > Len(s) THEN <<cur>>
    ELSE IF s[i] = "," THEN <<cur>> \o SplitFrom(s, i + 1, <<>>)
    ELSE SplitFrom(s, i + 1, Append(cur, s[i]))

Split(s) == SplitFrom(s, 1, <<>>)

\* str.strip(): leading and trailing blanks removed
RECURSIVE LStrip(_)
LStrip(s) == IF s # <<>> /\ Head(s) = " " THEN LStrip(Tail(s)) ELSE s

RECURSIVE RStrip(_)
RStrip(s) ==
    IF s # <<>> /\ s[Len(s)] = " " THEN RStrip(SubSeq(s, 1, Len(s) - 1)) ELSE s

Strip(s) == RStrip(LStrip(s))

DigitValue(c) ==
    CASE c = "0" -> 0 [] c = "1" -> 1 [] c = "2" -> 2 [] c = "3" -> 3
      [] c = "4" -> 4 [] c = "5" -> 5 [] c = "6" -> 6 [] c = "7" -> 7
      [] c = "8" -> 8 [] c = "9" -> 9

\* int(tok) succeeds on a non-empty run of decimal digits (blanks around it
\* are accepted by int() as well as removed by strip())
IsIntLiteral(tok) ==
    /\ Strip(tok) # <<>>
    /\ \A i \in 1..Len(Strip(tok)) : Strip(tok)[i] \in Digits

RECURSIVE DigitsToInt(_, _)
DigitsToInt(s, acc) ==
    IF s = <<>> THEN acc ELSE DigitsToInt(Tail(s), 10 * acc + DigitValue(Head(s)))

ToInt(tok) == DigitsToInt(Strip(tok), 0)

\* [int(day.strip()) for day in custom_days.split(',')]: ok = FALSE stands
\* for the ValueError raised by int()
ParseDays(custom_days) ==
    LET toks == Split(custom_days) IN
    IF \A i \in 1..Len(toks) : IsIntLiteral(toks[i])
    THEN [ok |-> TRUE, days |-> [i \in 1..Len(toks) |-> ToInt(toks[i])]]
    ELSE [ok |-> FALSE, days |-> <<>>]

Range(seq) == {seq[i] : i \in 1..Len(seq)}

\* date.isoweekday(): 1 = Monday .. 7 = Sunday; day 1 is Wednesday 2025-01-01
isoweekday(date) == ((date + 1) % 7) + 1

(***************************************************************************)
(* WorkSchedule methods (core/models.py)                                   *)
(***************************************************************************)
\* get_working_days answering every day when custom_days does not parse
get_working_days_MalformedAllDays(self) ==
    IF self.schedule_type = "weekly" THEN <<1, 2, 3, 4, 5>>
    ELSE IF self.schedule_type = "custom" /\ self.custom_days # <<>>
         THEN LET p == ParseDays(self.custom_days) IN
              IF p.ok THEN p.days ELSE <<1, 2, 3, 4, 5, 6, 7>>
    ELSE <<1, 2, 3, 4, 5, 6, 7>>

get_working_days(self) ==
    IF self.schedule_type = "weekly" THEN <<1, 2, 3, 4, 5>>
    ELSE IF self.schedule_type = "custom" /\ self.custom_days # <<>>
         THEN LET p == ParseDays(self.custom_days) IN
              IF p.ok THEN p.days ELSE <<>>
    ELSE <<1, 2, 3, 4, 5, 6, 7>>

\* is_working_day without the end_date test
is_working_day_NoEndCheck(self, date) ==
    IF ~self.is_active THEN FALSE
    ELSE IF date < self.start_date THEN FALSE
    ELSE isoweekday(date) \in Range(get_working_days(self))

is_working_day(self, date) ==
    IF ~self.is_active THEN FALSE
    ELSE IF date < self.start_date THEN FALSE
    ELSE IF self.end_date # None /\ date > self.end_date THEN FALSE
    ELSE isoweekday(date) \in Range(get_working_days(self))

\* is_working_at_time with end_time excluded
is_working_at_time_ExclusiveEnd(self, date, time) ==
    IF ~is_working_day(self, date) THEN FALSE
    ELSE self.start_time <= time /\ time < self.end_time

\* datetime_obj is the pair (date, time)
is_working_at_time(self, date, time) ==
    IF ~is_working_day(self, date) THEN FALSE
    ELSE self.start_time <= time /\ time <= self.end_time

_periods_overlap(self, other) ==
    IF self.end_date = None THEN other.start_date >= self.start_date
    ELSE IF other.end_date = None THEN self.start_date <= other.start_date
    ELSE ~(self.end_date < other.start_date \/ other.end_date < self.start_date)

_days_overlap(self, other) ==
    Range(get_working_days(self)) \cap Range(get_working_days(other)) # {}

_time_overlap(self, other) ==
    ~(self.end_time <= other.start_time \/ other.end_time <= self.start_time)

\* the stored schedules get_conflicts collects, as a set; store is the table
get_conflicts(self, store) ==
    LET overlapping == {s \in store : s.master = self.master /\ s.is_active
                                      /\ s.pk # self.pk}
    IN {s \in overlapping : /\ _periods_overlap(self, s)
                            /\ _days_overlap(self, s)
                            /\ _time_overlap(self, s)}


(***************************************************************************)
(* Lookup helpers (core/models.py)                                         *)
(***************************************************************************)
\* get_master_schedule_for_date without the master filter
get_master_schedule_for_date_AnyMaster(master, date, store) ==
    LET schedules == {s \in store : /\ s.is_active
                                    /\ s.start_date <= date
                                    /\ (s.end_date = None \/ s.end_date >= date)}
        hits == {s \in schedules : is_working_day(s, date)}
    IN IF hits = {} THEN {None}
       ELSE {s.pk : s \in {h \in hits :
                             \A o \in hits : o.start_date >= h.start_date}}

\* The schedules come ordered by start_date (Meta.ordering, one master); the
\* order among equal start dates is left to the database.  The operator
\* gives the primary keys the function may return, {None} when it returns
\* None.
get_master_schedule_for_date(master, date, store) ==
    LET schedules == {s \in store : /\ s.master = master
                                    /\ s.is_active
                                    /\ s.start_date <= date
                                    /\ (s.end_date = None \/ s.end_date >= date)}
        hits == {s \in schedules : is_working_day(s, date)}
    IN IF hits = {} THEN {None}
       ELSE {s.pk : s \in {h \in hits :
                             \A o \in hits : o.start_date >= h.start_date}}

ScheduleByPk(store, pk) == CHOOSE s \in store : s.pk = pk

\* is_master_working_at_datetime taking a master without schedule as working
is_master_working_at_datetime_NoScheduleWorks(found, date, time, store) ==
    IF found = None THEN TRUE
    ELSE is_working_at_time(ScheduleByPk(store, found), date, time)

\* found is the value get_master_schedule_for_date returned to the caller
is_master_working_at_datetime(found, date, time, store) ==
    IF found = None THEN FALSE
    ELSE is_working_at_time(ScheduleByPk(store, found), date, time)

(***************************************************************************)
(* WorkScheduleForm.clean (core/forms.py)                                  *)
(***************************************************************************)
\* Step 4 without the master filter of the queryset
FormOverlapOutcomes_AnyMaster(data, instPk, store) ==
    IF data.end_date = None THEN {"pass"}
    ELSE LET decisive == {s \in store :
                            /\ s.is_active
                            /\ s.pk # instPk
                            /\ \/ s.end_date = None
                               \/ (data.start_date <= s.end_date
                                   /\ data.end_date >= s.start_date)}
             first == {s \in decisive :
                         \A o \in decisive : o.start_date >= s.start_date}
         IN IF decisive = {} THEN {"pass"}
            ELSE {IF s.end_date = None THEN "TypeError" ELSE "overlap" :
                    s \in first}

\* Step 4 of the form: the loop over the master's other active schedules.
\* Comparing a date with the None end_date of an open-ended schedule raises
\* TypeError; the first schedule in start_date order that either raises or
\* overlaps decides.
FormOverlapOutcomes(data, instPk, store) ==
    IF data.end_date = None THEN {"pass"}
    ELSE LET overlapping_schedules ==
                 {s \in store : s.master = data.master /\ s.is_active
                                /\ s.pk # instPk}
             decisive == {s \in overlapping_schedules :
                            \/ s.end_date = None
                            \/ (data.start_date <= s.end_date
                                /\ data.end_date >= s.start_date)}
             first == {s \in decisive :
                         \A o \in decisive : o.start_date >= s.start_date}
         IN IF decisive = {} THEN {"pass"}
            ELSE {IF s.end_date = None THEN "TypeError" ELSE "overlap" :
                    s \in first}

DaysInRange(days) == \A i \in 1..Len(days) : 1 <= days[i] /\ days[i] <= 7

\* The field an add_error(field, ...) message is attached to
FieldOf(tag) ==
    CASE tag = "weekly_under_2_weeks" -> "end_date"
      [] tag = "no_rest_day" -> "custom_days"
      [] tag = "day_over_12h" -> "end_time"
      [] tag = "day_under_1h" -> "end_time"
      [] OTHER -> "__all__"

\* ovl is the outcome of step 4.  The result: crash (an exception other
\* than ValidationError left clean) and the error messages collected.
WorkScheduleForm_clean(data, instPk, store, now, ovl) ==
    LET both == data.end_date # None
        span == data.end_date - data.start_date
        dates == IF both /\ data.end_date < data.start_date
                     THEN {"end_before_start"}
                 ELSE IF both /\ data.start_date < now THEN {"start_in_past"}
                 ELSE IF both /\ span > 365 THEN {"period_over_year"}
                 ELSE {}
        weekly == IF data.schedule_type = "weekly" /\ both /\ span < 14
                  THEN {"weekly_under_2_weeks"} ELSE {}
        p == ParseDays(data.custom_days)
        custom == IF data.schedule_type # "custom" THEN {}
                  ELSE IF both /\ span > 90 THEN {"custom_over_3_months"}
                  ELSE IF data.custom_days = <<>> THEN {}
                  ELSE IF ~p.ok \/ ~DaysInRange(p.days) THEN {"days_invalid"}
                  ELSE IF Len(p.days) = 7 THEN {"no_rest_day"}
                  ELSE {}
        raisedCustom == custom \ {"no_rest_day"}
        minutes == data.end_time - data.start_time
        times == IF data.end_time <= data.start_time THEN {"end_not_after_start"}
                 ELSE (IF minutes > 720 THEN {"day_over_12h"} ELSE {})
                      \cup (IF minutes < 60 THEN {"day_under_1h"} ELSE {})
    IN IF dates # {} THEN [crash |-> FALSE, errors |-> dates]
       ELSE IF raisedCustom # {}
            THEN [crash |-> FALSE, errors |-> weekly \cup custom]
       ELSE IF ovl = "TypeError"
            THEN [crash |-> TRUE, errors |-> weekly \cup custom]
       ELSE IF ovl = "overlap"
            THEN [crash |-> FALSE, errors |-> weekly \cup custom \cup {"overlap"}]
       ELSE [crash |-> FALSE, errors |-> weekly \cup custom \cup times]


(***************************************************************************)
(* WorkSchedule.clean, validate_unique and save (core/models.py)           *)
(***************************************************************************)
\* The time block of WorkSchedule.clean with twelve hours already too long
clean_times_TwelveTooLong(self) ==
    LET hasTimes == self.start_time # None /\ self.end_time # None
        minutes == self.end_time - self.start_time
    IN IF ~hasTimes THEN {}
       ELSE IF self.start_time >= self.end_time THEN {"m_time_order"}
       ELSE IF minutes >= 720 THEN {"m_day_over_12h"}
       ELSE IF minutes < 60 THEN {"m_day_under_1h"}
       ELSE {}

\* The time block of WorkSchedule.clean: hours = duration.seconds / 3600
\* is compared with 12 and with 1, that is minutes with 720 and with 60
clean_times(self) ==
    LET hasTimes == self.start_time # None /\ self.end_time # None
        minutes == self.end_time - self.start_time
    IN IF ~hasTimes THEN {}
       ELSE IF self.start_time >= self.end_time THEN {"m_time_order"}
       ELSE IF minutes > 720 THEN {"m_day_over_12h"}
       ELSE IF minutes < 60 THEN {"m_day_under_1h"}
       ELSE {}

\* The date block of WorkSchedule.clean without the order of the dates
clean_dates_NoOrder(self) ==
    LET both == self.start_date # None /\ self.end_date # None
    IN IF ~both THEN {}
       ELSE IF self.end_date - self.start_date > 365
            THEN {"m_period_over_year"}
       ELSE {}

\* The date block of WorkSchedule.clean
clean_dates(self) ==
    LET both == self.start_date # None /\ self.end_date # None
    IN IF ~both THEN {}
       ELSE IF self.start_date > self.end_date THEN {"m_date_order"}
       ELSE IF self.end_date - self.start_date > 365
            THEN {"m_period_over_year"}
       ELSE {}

\* The past-date check of WorkSchedule.clean applied to no instance
clean_start_date_Never(self, now) == {}

\* The past-date check of WorkSchedule.clean: only for an instance without
\* primary key
clean_start_date(self, now) ==
    IF self.pk = None /\ self.start_date # None /\ self.start_date < now
    THEN {"m_start_in_past"} ELSE {}

\* self is the instance under validation; a field the form did not fill is
\* None.  timedelta is bound only by the import inside the block guarded by
\* "if self.start_time and self.end_time": reading it unbound raises
\* UnboundLocalError (crash).
WorkSchedule_clean(self, store, now) ==
    LET hasTimes == self.start_time # None /\ self.end_time # None
        times == clean_times(self)
        dates == clean_dates(self)
        past == clean_start_date(self, now)
        p == ParseDays(self.custom_days)
        custom == IF self.schedule_type = "custom" /\ self.custom_days # <<>>
                  THEN IF ~p.ok THEN {"m_days_format"}
                       ELSE IF ~DaysInRange(p.days) THEN {"m_days_range"}
                       ELSE {}
                  ELSE {}
        checked == self.is_active /\ self.master # None
        unbound == checked /\ self.end_date = None /\ ~hasTimes
        horizon == IF self.end_date # None THEN self.end_date ELSE now + 365
        overlapping == {s \in store : /\ s.master = self.master
                                      /\ s.is_active
                                      /\ s.start_date <= horizon
                                      /\ s.end_date # None
                                      /\ s.end_date >= self.start_date
                                      /\ s.pk # self.pk}
    IN IF times # {} THEN [crash |-> FALSE, errors |-> times]
       ELSE IF dates # {} THEN [crash |-> FALSE, errors |-> dates]
       ELSE IF past # {} THEN [crash |-> FALSE, errors |-> past]
       ELSE IF custom # {} THEN [crash |-> FALSE, errors |-> custom]
       ELSE IF unbound THEN [crash |-> TRUE, errors |-> {}]
       ELSE IF checked /\ overlapping # {}
            THEN [crash |-> FALSE, errors |-> {"m_overlap"}]
       ELSE [crash |-> FALSE, errors |-> {}]

\* validate_unique with a key of master, schedule_type and custom_days only
validate_unique_NoStartDate(self, store, exclude) ==
    IF "custom_days" \in exclude THEN {}
    ELSE IF \E s \in store : /\ s.pk # self.pk
                             /\ s.master = self.master
                             /\ s.schedule_type = self.schedule_type
                             /\ s.custom_days = self.custom_days
         THEN {"unique_together"}
    ELSE {}

\* Meta.unique_together = master, schedule_type, start_date, custom_days;
\* the check is skipped when one of its fields is excluded from validation
validate_unique(self, store, exclude) ==
    IF "custom_days" \in exclude THEN {}
    ELSE IF \E s \in store : /\ s.pk # self.pk
                             /\ s.master = self.master
                             /\ s.schedule_type = self.schedule_type
                             /\ s.start_date = self.start_date
                             /\ s.custom_days = self.custom_days
         THEN {"unique_together"}
    ELSE {}

\* A WorkSchedule() before the form fills it
NewInstance ==
    [pk |-> None, master |-> None, schedule_type |-> "weekly",
     start_date |-> None, end_date |-> None, custom_days |-> <<>>,
     start_time |-> None, end_time |-> None, is_active |-> TRUE]

\* construct_instance: the cleaned fields are copied to the instance, the
\* fields that add_error removed from cleaned_data are left as they were
construct_instance(instance, data, dropped) ==
    [pk |-> instance.pk,
     master |-> data.master,
     schedule_type |-> data.schedule_type,
     start_date |-> data.start_date,
     end_date |-> IF "end_date" \in dropped THEN instance.end_date
                  ELSE data.end_date,
     custom_days |-> IF "custom_days" \in dropped THEN instance.custom_days
                     ELSE Strip(data.custom_days),
     start_time |-> data.start_time,
     end_time |-> IF "end_time" \in dropped THEN instance.end_time
                  ELSE data.end_time,
     is_active |-> data.is_active]

\* form.is_valid(): the field cleaning (custom_days is stripped), clean(),
\* then _post_clean: the model's clean() on the constructed instance and
\* validate_unique.  Result: crash, errors, and the instance to save.
is_valid(instance, post, store, now, ovl) ==
    LET data == [post EXCEPT !.custom_days = Strip(post.custom_days)]
        f == WorkScheduleForm_clean(data, instance.pk, store, now, ovl)
        dropped == {FieldOf(t) : t \in f.errors} \ {"__all__"}
        inst == construct_instance(instance, data, dropped)
        m == WorkSchedule_clean(inst, store, now)
        u == validate_unique(inst, store, dropped)
    IN IF f.crash THEN [crash |-> TRUE, errors |-> f.errors, instance |-> inst]
       ELSE IF m.crash
            THEN [crash |-> TRUE, errors |-> f.errors, instance |-> inst]
       ELSE [crash |-> FALSE, errors |-> f.errors \cup m.errors \cup u,
             instance |-> inst]

\* WorkSchedule.save(): full_clean() again, then the row is written
save_NoFullClean(self, store, now) ==
    [ok |-> TRUE, row |-> self]

save(self, store, now) ==
    LET m == WorkSchedule_clean(self, store, now)
        u == validate_unique(self, store, {})
    IN IF m.crash \/ m.errors # {} \/ u # {} THEN [ok |-> FALSE, row |-> self]
       ELSE [ok |-> TRUE, row |-> self]


(***************************************************************************)
(* Bounds and inputs                                                       *)
(***************************************************************************)
\* Rows ever inserted into the schedule table in one behaviour
MaxSchedules == 2

\* Dates the server clock takes (timezone.now().date())
ClockDates == {1, 25}

\* custom_days strings
NoDays == <<>>
Days135 == <<"1", ",", "3", ",", "5">>
Days35 == <<"3", ",", "5">>
Days24 == <<"2", ",", "4">>
DaysX3 == <<"x", ",", "3">>
Days8 == <<"8">>
DaysAll == <<"1", ",", "2", ",", "3", ",", "4", ",", "5", ",", "6", ",", "7">>
DaysBlank13 == <<" ", "1", ",", " ", "3", " ">>

\* Families of form submissions: every behaviour draws its submissions from
\* one family.  kinds are pairs (schedule_type, custom_days), periods are
\* pairs (start_date, end_date), windows are pairs (start_time, end_time).
Families ==
    << \* periods, bounded and open-ended, two masters, (in)active
       [masters |-> {1, 2}, actives |-> {TRUE, FALSE},
        kinds |-> {<<"weekly", NoDays>>},
        periods |-> {<<1, None>>, <<6, None>>, <<1, 20>>, <<6, 30>>,
                     <<380, 400>>},
        windows |-> {<<540, 1080>>}],
       \* weekday sets and daily windows over two overlapping periods
       [masters |-> {1}, actives |-> {TRUE},
        kinds |-> {<<"custom", Days135>>, <<"custom", Days35>>,
                   <<"custom", Days24>>, <<"monthly", NoDays>>},
        periods |-> {<<1, 60>>, <<32, 91>>},
        windows |-> {<<540, 780>>, <<720, 960>>, <<780, 1080>>}],
       \* well-formed and malformed custom_days
       [masters |-> {1}, actives |-> {TRUE},
        kinds |-> {<<"custom", NoDays>>, <<"custom", DaysX3>>,
                   <<"custom", Days8>>, <<"custom", DaysAll>>,
                   <<"custom", DaysBlank13>>, <<"monthly", Days135>>},
        periods |-> {<<1, None>>, <<40, 60>>},
        windows |-> {<<540, 1080>>}],
       \* daily durations at their limits
       [masters |-> {1}, actives |-> {TRUE},
        kinds |-> {<<"monthly", NoDays>>},
        periods |-> {<<1, None>>, <<1, 20>>},
        windows |-> {<<600, 1320>>, <<600, 1321>>, <<540, 600>>,
                     <<540, 599>>, <<360, 1380>>, <<1080, 540>>}],
       \* date spans at their limits
       [masters |-> {1}, actives |-> {TRUE},
        kinds |-> {<<"weekly", NoDays>>, <<"custom", Days24>>},
        periods |-> {<<1, None>>, <<25, 390>>, <<25, 391>>, <<25, 115>>,
                     <<25, 116>>, <<20, 6>>, <<1, 6>>},
        windows |-> {<<540, 1080>>}],
       \* open-ended periods with different daily windows
       [masters |-> {1}, actives |-> {TRUE},
        kinds |-> {<<"weekly", NoDays>>},
        periods |-> {<<1, None>>, <<6, None>>},
        windows |-> {<<540, 780>>, <<780, 1080>>}] >>

Posts(F) ==
    {[master |-> m, schedule_type |-> k[1], custom_days |-> k[2],
      start_date |-> p[1], end_date |-> p[2],
      start_time |-> w[1], end_time |-> w[2], is_active |-> a] :
        m \in F.masters, k \in F.kinds, p \in F.periods, w \in F.windows,
        a \in F.actives}

NoPost ==
    [master |-> None, schedule_type |-> "", custom_days |-> <<>>,
     start_date |-> None, end_date |-> None,
     start_time |-> None, end_time |-> None, is_active |-> FALSE]

NoOp == [op |-> "none", pk |-> None, post |-> NoPost, outcome |-> "none",
         errors |-> {}]

NoCall == [fn |-> "none"]

\* The administrators who send requests at the same time, and the state in
\* which none of them has a request being served
Admins == {1, 2}

NoRequests == [a \in Admins |-> [step |-> "idle"]]

(***************************************************************************)
(* Views (core/views.py)                                                   *)
(***************************************************************************)
\* What a POST of the form leads to: the response and the table afterwards.
\* instance is NewInstance (create) or the stored row (edit).
Submit(instance, post, store, now, newPk) ==
    {LET r == is_valid(instance, post, store, now, ovl)
         sv == save(r.instance, store, now)
         row == IF instance.pk = None THEN [sv.row EXCEPT !.pk = newPk]
                ELSE sv.row
     IN IF r.crash THEN [outcome |-> "crash", errors |-> r.errors, store |-> store]
        ELSE IF r.errors # {}
             THEN [outcome |-> "invalid", errors |-> r.errors, store |-> store]
        ELSE IF ~sv.ok
             THEN [outcome |-> "crash", errors |-> {}, store |-> store]
        ELSE [outcome |-> "saved", errors |-> {},
              store |-> {s \in store : s.pk # instance.pk} \cup {row}] :
       ovl \in FormOverlapOutcomes(post, instance.pk, store)}

work_schedule_create(post) ==
    /\ last = NoOp
    /\ nextPk <= MaxSchedules
    /\ \E res \in Submit(NewInstance, post, db, today, nextPk) :
         /\ db' = res.store
         /\ nextPk' = IF res.outcome = "saved" THEN nextPk + 1 ELSE nextPk
         /\ last' = [op |-> "create", pk |-> None, post |-> post,
                     outcome |-> res.outcome, errors |-> res.errors]
    /\ UNCHANGED <<today, family, call, orders, inflight>>

work_schedule_edit(schedule_id, post) ==
    /\ last = NoOp
    /\ \E schedule \in db :
         /\ schedule.pk = schedule_id
         /\ \E res \in Submit(schedule, post, db, today, nextPk) :
              /\ db' = res.store
              /\ last' = [op |-> "edit", pk |-> schedule_id, post |-> post,
                          outcome |-> res.outcome, errors |-> res.errors]
    /\ UNCHANGED <<nextPk, today, family, call, orders, inflight>>

work_schedule_delete(schedule_id) ==
    /\ last = NoOp
    /\ \E schedule \in db :
         /\ schedule.pk = schedule_id
         /\ db' = db \ {schedule}
    /\ last' = [op |-> "delete", pk |-> schedule_id, post |-> NoPost,
                outcome |-> "deleted", errors |-> {}]
    /\ UNCHANGED <<nextPk, today, family, call, orders, inflight>>

\* The response of the request is delivered; requests are served one at a
\* time
Respond ==
    /\ last # NoOp
    /\ last' = NoOp
    /\ UNCHANGED <<db, nextPk, today, family, call, orders, inflight>>

\* Days pass
Tick ==
    /\ last = NoOp
    /\ \E d \in ClockDates : d > today /\ today' = d
    /\ UNCHANGED <<db, nextPk, family, last, call, orders, inflight>>

Init ==
    /\ db = {}
    /\ nextPk = 1
    /\ today = 1
    /\ family \in 1..Len(Families)
    /\ last = NoOp
    /\ call = NoCall
    /\ orders = {}
    /\ inflight = NoRequests

Next ==
    \/ \E post \in Posts(Families[family]) : work_schedule_create(post)
    \/ \E pk \in 1..MaxSchedules, post \in Posts(Families[family]) :
         work_schedule_edit(pk, post)
    \/ \E pk \in 1..MaxSchedules : work_schedule_delete(pk)
    \/ Respond
    \/ Tick

Spec == Init /\ [][Next]_vars


(***************************************************************************)
(* Calls of the schedule methods and lookup helpers on a table that        *)
(* creations of the family have filled                                     *)
(***************************************************************************)
QueryDates == {1, 5, 6, 20, 21, 35, 61}

QueryTimes == {539, 540, 600, 1080, 1081}

\* The tables n successive work_schedule_create requests can leave
RECURSIVE StoresAfter(_, _)
StoresAfter(n, F) ==
    IF n = 0 THEN {{}}
    ELSE LET prev == StoresAfter(n - 1, F) IN
         prev \cup UNION {{res.store :
                             res \in Submit(NewInstance, post, store, 1,
                                            Cardinality(store) + 1)} :
                          store \in prev, post \in Posts(F)}

\* WorkSchedule(**fields): an instance in memory, not saved
Unsaved(post) ==
    [pk |-> None, master |-> post.master,
     schedule_type |-> post.schedule_type,
     start_date |-> post.start_date, end_date |-> post.end_date,
     custom_days |-> post.custom_days,
     start_time |-> post.start_time, end_time |-> post.end_time,
     is_active |-> post.is_active]

Instances == db \cup {Unsaved(post) : post \in Posts(Families[family])}

\* The methods that read nothing but self are called on the stored rows,
\* and on the instances in memory while the table is empty
SelfInstances == IF db = {} THEN Instances ELSE db

Call_get_working_days(self) ==
    /\ call = NoCall
    /\ call' = [fn |-> "get_working_days", self |-> self,
                ret |-> get_working_days(self)]
    /\ UNCHANGED <<db, nextPk, today, family, last, orders, inflight>>

Call_is_working_day(self, date) ==
    /\ call = NoCall
    /\ call' = [fn |-> "is_working_day", self |-> self, date |-> date,
                ret |-> is_working_day(self, date)]
    /\ UNCHANGED <<db, nextPk, today, family, last, orders, inflight>>

Call_is_working_at_time(self, date, time) ==
    /\ call = NoCall
    /\ call' = [fn |-> "is_working_at_time", self |-> self, date |-> date,
                time |-> time, ret |-> is_working_at_time(self, date, time)]
    /\ UNCHANGED <<db, nextPk, today, family, last, orders, inflight>>

Call__periods_overlap(self, other) ==
    /\ call = NoCall
    /\ call' = [fn |-> "_periods_overlap", self |-> self, other |-> other,
                ret |-> _periods_overlap(self, other)]
    /\ UNCHANGED <<db, nextPk, today, family, last, orders, inflight>>

Call_get_conflicts(self) ==
    /\ call = NoCall
    /\ call' = [fn |-> "get_conflicts", self |-> self,
                ret |-> get_conflicts(self, db)]
    /\ UNCHANGED <<db, nextPk, today, family, last, orders, inflight>>

Call_get_master_schedule_for_date(master, date) ==
    /\ call = NoCall
    /\ \E pk \in get_master_schedule_for_date(master, date, db) :
         call' = [fn |-> "get_master_schedule_for_date", master |-> master,
                  date |-> date, ret |-> pk]
    /\ UNCHANGED <<db, nextPk, today, family, last, orders, inflight>>

Call_is_master_working_at_datetime(master, date, time) ==
    /\ call = NoCall
    /\ \E found \in get_master_schedule_for_date(master, date, db) :
         call' = [fn |-> "is_master_working_at_datetime", master |-> master,
                  date |-> date, time |-> time, schedule |-> found,
                  ret |-> is_master_working_at_datetime(found, date, time, db)]
    /\ UNCHANGED <<db, nextPk, today, family, last, orders, inflight>>

\* The caller takes the value
Return ==
    /\ call # NoCall
    /\ call' = NoCall
    /\ UNCHANGED <<db, nextPk, today, family, last, orders, inflight>>

InitQuery ==
    /\ family \in 1..Len(Families)
    /\ db \in StoresAfter(MaxSchedules, Families[family])
    /\ nextPk = Cardinality(db) + 1
    /\ today = 1
    /\ last = NoOp
    /\ call = NoCall
    /\ orders = {}
    /\ inflight = NoRequests

NextQuery ==
    \/ \E self \in SelfInstances : Call_get_working_days(self)
    \/ \E self \in SelfInstances, date \in QueryDates :
         Call_is_working_day(self, date)
    \/ \E self \in SelfInstances, date \in QueryDates, time \in QueryTimes :
         Call_is_working_at_time(self, date, time)
    \/ \E self \in Instances : Call_get_conflicts(self)
    \/ \E self \in Instances, other \in db : Call__periods_overlap(self, other)
    \/ \E master \in Families[family].masters, date \in QueryDates :
         Call_get_master_schedule_for_date(master, date)
    \/ \E master \in Families[family].masters, date \in QueryDates,
          time \in QueryTimes :
         Call_is_master_working_at_datetime(master, date, time)
    \/ Return

SpecQuery == InitQuery /\ [][NextQuery]_vars


(***************************************************************************)
(* Orders and the assignment of a master (core/models.py Order,            *)
(* core/forms.py OrderCreateForm, core/views.py order views)               *)
(***************************************************************************)
\* Orders ever created in one behaviour
MaxOrders == 2

\* The masters of the autoservice (role master, active)
Masters == {1, 2}

\* master_id values of the assignment POST: missing, the masters of the
\* autoservice, and a user the master lookup does not find
MasterIds == {None, 1, 2, 3}

\* Families of order submissions, triples (preferred_date, preferred_time,
\* duration of the service): every behaviour of the order views draws its
\* orders from one family.  Day 6 is a Monday, day 11 a Saturday, day 1 is
\* today.
OrderFamilies ==
    << \* orders that overlap, touch, and rely on the default duration
       {<<6, 600, 60>>, <<6, 630, 60>>, <<6, 660, 30>>, <<6, 570, 0>>},
       \* orders inside and outside the working time of the schedules
       {<<6, 600, 60>>, <<6, 1110, 60>>, <<11, 600, 60>>, <<1, 600, 60>>} >>

\* The orders the availability views are asked about: a service longer than
\* the hour the views assume, and orders of one hour before and inside it
LongOrders == {<<6, 600, 120>>, <<6, 690, 60>>, <<6, 600, 60>>}

OrderById(ostore, id) == CHOOSE o \in ostore : o.id = id

\* order.estimated_duration or 60
order_duration(o) ==
    IF o.estimated_duration # 0 THEN o.estimated_duration ELSE 60

\* Order.objects.filter(assigned_master=master, preferred_date=...,
\* status__in=['confirmed', 'in_progress']).exclude(id=order.id)
conflicting_orders_None(order, master, ostore) == {}

conflicting_orders(order, master, ostore) ==
    {c \in ostore : /\ c.assigned_master = master
                    /\ c.preferred_date = order.preferred_date
                    /\ c.status \in {"confirmed", "in_progress"}
                    /\ c.id # order.id}

\* The time comparison of the assignment with both ends included
time_conflict_Closed(order, c) ==
    LET order_start == order.preferred_time
        order_end == order_start + order_duration(order)
        conflict_start == c.preferred_time
        conflict_end == conflict_start + order_duration(c)
    IN order_start <= conflict_end /\ order_end >= conflict_start

\* order_start < conflict_end and order_end > conflict_start; both orders
\* are on the same date, so the datetimes compare as minutes of that day
time_conflict(order, c) ==
    LET order_start == order.preferred_time
        order_end == order_start + order_duration(order)
        conflict_start == c.preferred_time
        conflict_end == conflict_start + order_duration(c)
    IN order_start < conflict_end /\ order_end > conflict_start

\* The schedule check of the assignment always passing
schedule_check_Skipped(working, found, order, sstore) == {}

\* The schedule check of the assignment: working is the value of
\* is_master_working_at_datetime, found the schedule looked up again for
\* the message
schedule_check(working, found, order, sstore) ==
    IF working THEN {}
    ELSE IF found = None THEN {"no_schedule"}
    ELSE IF ~is_working_day(ScheduleByPk(sstore, found), order.preferred_date)
         THEN {"not_working_day"}
    ELSE {"not_working_time"}

NoOrderOp(op, id) ==
    [op |-> op, pk |-> id, outcome |-> "404", errors |-> {}]

\* OrderCreateForm and Order.save: clean_preferred_date wants a date after
\* today, the order starts pending with no master, estimated_duration is
\* taken from the service
order_create(kind) ==
    /\ last = NoOp
    /\ Cardinality(orders) < MaxOrders
    /\ IF kind[1] <= today
       THEN /\ orders' = orders
            /\ last' = [op |-> "order_create", pk |-> None,
                        outcome |-> "invalid", errors |-> {"date_not_future"}]
       ELSE LET id == Cardinality(orders) + 1 IN
            /\ orders' = orders \cup
                  {[id |-> id, preferred_date |-> kind[1],
                    preferred_time |-> kind[2],
                    estimated_duration |-> kind[3], status |-> "pending",
                    assigned_master |-> None, completed_at |-> None]}
            /\ last' = [op |-> "order_create", pk |-> id,
                        outcome |-> "saved", errors |-> {}]
    /\ UNCHANGED <<db, nextPk, today, family, call, inflight>>

\* The assignment that also confirms the order it assigns
autoservice_order_assign_master_Confirms(order_id, master_id) ==
    /\ last = NoOp
    /\ IF ~\E o \in orders : o.id = order_id
       THEN /\ orders' = orders
            /\ last' = NoOrderOp("assign_master", order_id)
       ELSE LET order == OrderById(orders, order_id)
                reply(working, outcome, errors) ==
                    [op |-> "assign_master", pk |-> order_id,
                     master |-> master_id, working |-> working,
                     outcome |-> outcome, errors |-> errors]
            IN
            IF master_id = None
            THEN /\ orders' = orders
                 /\ last' = reply("unasked", "rejected", {"choose_master"})
            ELSE IF master_id \notin Masters
            THEN /\ orders' = orders
                 /\ last' = reply("unasked", "rejected", {"exception"})
            ELSE \E first, second \in
                      get_master_schedule_for_date(master_id,
                                                   order.preferred_date, db) :
                   LET working == is_master_working_at_datetime(
                                      first, order.preferred_date,
                                      order.preferred_time, db)
                       off == schedule_check(working, second, order, db)
                       busy == \E c \in conflicting_orders(order, master_id,
                                                           orders) :
                                  time_conflict(order, c)
                   IN IF off # {}
                      THEN /\ orders' = orders
                           /\ last' = reply(working, "rejected", off)
                      ELSE IF busy
                      THEN /\ orders' = orders
                           /\ last' = reply(working, "rejected", {"busy"})
                      ELSE /\ orders' = (orders \ {order}) \cup
                                 {[order EXCEPT !.assigned_master = master_id,
                                                !.status = "confirmed"]}
                           /\ last' = reply(working, "assigned", {})
    /\ UNCHANGED <<db, nextPk, today, family, call, inflight>>

autoservice_order_assign_master(order_id, master_id) ==
    /\ last = NoOp
    /\ IF ~\E o \in orders : o.id = order_id
       THEN /\ orders' = orders
            /\ last' = NoOrderOp("assign_master", order_id)
       ELSE LET order == OrderById(orders, order_id)
                reply(working, outcome, errors) ==
                    [op |-> "assign_master", pk |-> order_id,
                     master |-> master_id, working |-> working,
                     outcome |-> outcome, errors |-> errors]
            IN
            IF master_id = None
            THEN /\ orders' = orders
                 /\ last' = reply("unasked", "rejected", {"choose_master"})
            ELSE IF master_id \notin Masters
            THEN /\ orders' = orders
                 /\ last' = reply("unasked", "rejected", {"exception"})
            ELSE \E first, second \in
                      get_master_schedule_for_date(master_id,
                                                   order.preferred_date, db) :
                   LET working == is_master_working_at_datetime(
                                      first, order.preferred_date,
                                      order.preferred_time, db)
                       off == schedule_check(working, second, order, db)
                       busy == \E c \in conflicting_orders(order, master_id,
                                                           orders) :
                                  time_conflict(order, c)
                   IN IF off # {}
                      THEN /\ orders' = orders
                           /\ last' = reply(working, "rejected", off)
                      ELSE IF busy
                      THEN /\ orders' = orders
                           /\ last' = reply(working, "rejected", {"busy"})
                      ELSE /\ orders' = (orders \ {order}) \cup
                                 {[order EXCEPT !.assigned_master = master_id]}
                           /\ last' = reply(working, "assigned", {})
    /\ UNCHANGED <<db, nextPk, today, family, call, inflight>>

\* The answer of a status view: the status was changed and saved, or the
\* current status does not allow the change
StatusReply(op, id, outcome) ==
    [op |-> op, pk |-> id, outcome |-> outcome,
     errors |-> IF outcome = "rejected" THEN {"status"} ELSE {}]

\* Only a pending order is confirmed
autoservice_order_confirm(order_id) ==
    /\ last = NoOp
    /\ IF ~\E o \in orders : o.id = order_id
       THEN /\ orders' = orders
            /\ last' = NoOrderOp("confirm", order_id)
       ELSE LET order == OrderById(orders, order_id) IN
            IF ~(order.status = "pending")
            THEN /\ orders' = orders
                 /\ last' = StatusReply("confirm", order_id, "rejected")
            ELSE /\ orders' = (orders \ {order}) \cup
                       {[order EXCEPT !.status = "confirmed"]}
                 /\ last' = StatusReply("confirm", order_id, "saved")
    /\ UNCHANGED <<db, nextPk, today, family, call, inflight>>

\* The cancellation by the autoservice, of an order that is not completed
autoservice_order_cancel_Any(order_id) ==
    /\ last = NoOp
    /\ IF ~\E o \in orders : o.id = order_id
       THEN /\ orders' = orders
            /\ last' = NoOrderOp("cancel", order_id)
       ELSE LET order == OrderById(orders, order_id) IN
            IF ~(order.status # "completed")
            THEN /\ orders' = orders
                 /\ last' = StatusReply("cancel", order_id, "rejected")
            ELSE /\ orders' = (orders \ {order}) \cup
                       {[order EXCEPT !.status = "cancelled"]}
                 /\ last' = StatusReply("cancel", order_id, "saved")
    /\ UNCHANGED <<db, nextPk, today, family, call, inflight>>

\* The autoservice cancels a pending or confirmed order
autoservice_order_cancel(order_id) ==
    /\ last = NoOp
    /\ IF ~\E o \in orders : o.id = order_id
       THEN /\ orders' = orders
            /\ last' = NoOrderOp("cancel", order_id)
       ELSE LET order == OrderById(orders, order_id) IN
            IF ~(order.status \in {"pending", "confirmed"})
            THEN /\ orders' = orders
                 /\ last' = StatusReply("cancel", order_id, "rejected")
            ELSE /\ orders' = (orders \ {order}) \cup
                       {[order EXCEPT !.status = "cancelled"]}
                 /\ last' = StatusReply("cancel", order_id, "saved")
    /\ UNCHANGED <<db, nextPk, today, family, call, inflight>>

\* The client cancels a pending or confirmed order
user_order_cancel(order_id) ==
    /\ last = NoOp
    /\ IF ~\E o \in orders : o.id = order_id
       THEN /\ orders' = orders
            /\ last' = NoOrderOp("user_cancel", order_id)
       ELSE LET order == OrderById(orders, order_id) IN
            IF ~(order.status \in {"pending", "confirmed"})
            THEN /\ orders' = orders
                 /\ last' = StatusReply("user_cancel", order_id, "rejected")
            ELSE /\ orders' = (orders \ {order}) \cup
                       {[order EXCEPT !.status = "cancelled"]}
                 /\ last' = StatusReply("user_cancel", order_id, "saved")
    /\ UNCHANGED <<db, nextPk, today, family, call, inflight>>

\* The start of a confirmed order, with a master or without
autoservice_order_start_NoMaster(order_id) ==
    /\ last = NoOp
    /\ IF ~\E o \in orders : o.id = order_id
       THEN /\ orders' = orders
            /\ last' = NoOrderOp("start", order_id)
       ELSE LET order == OrderById(orders, order_id) IN
            IF ~(order.status = "confirmed")
            THEN /\ orders' = orders
                 /\ last' = StatusReply("start", order_id, "rejected")
            ELSE /\ orders' = (orders \ {order}) \cup
                       {[order EXCEPT !.status = "in_progress"]}
                 /\ last' = StatusReply("start", order_id, "saved")
    /\ UNCHANGED <<db, nextPk, today, family, call, inflight>>

\* A confirmed order with a master is started
autoservice_order_start(order_id) ==
    /\ last = NoOp
    /\ IF ~\E o \in orders : o.id = order_id
       THEN /\ orders' = orders
            /\ last' = NoOrderOp("start", order_id)
       ELSE LET order == OrderById(orders, order_id) IN
            IF ~(order.status = "confirmed" /\ order.assigned_master # None)
            THEN /\ orders' = orders
                 /\ last' = StatusReply("start", order_id, "rejected")
            ELSE /\ orders' = (orders \ {order}) \cup
                       {[order EXCEPT !.status = "in_progress"]}
                 /\ last' = StatusReply("start", order_id, "saved")
    /\ UNCHANGED <<db, nextPk, today, family, call, inflight>>

\* A running order is completed; completed_at is timezone.now()
autoservice_order_complete(order_id) ==
    /\ last = NoOp
    /\ IF ~\E o \in orders : o.id = order_id
       THEN /\ orders' = orders
            /\ last' = NoOrderOp("complete", order_id)
       ELSE LET order == OrderById(orders, order_id) IN
            IF ~(order.status = "in_progress")
            THEN /\ orders' = orders
                 /\ last' = StatusReply("complete", order_id, "rejected")
            ELSE /\ orders' = (orders \ {order}) \cup
                       {[order EXCEPT !.status = "completed",
                                     !.completed_at = today]}
                 /\ last' = StatusReply("complete", order_id, "saved")
    /\ UNCHANGED <<db, nextPk, today, family, call, inflight>>

\* The dates and times the availability views are asked about: those of
\* the long orders
AskDates == {k[1] : k \in LongOrders}

AskTimes == {k[2] : k \in LongOrders}

\* The slots of get_available_time_slots: 08:00 to 19:30 every 30 minutes
TimeSlots == {480 + 30 * k : k \in 0..23}

\* The orders both availability views look at for a master and a date
busy_orders(master, check_date, ostore) ==
    {c \in ostore : /\ c.assigned_master = master
                    /\ c.preferred_date = check_date
                    /\ c.status \in {"confirmed", "in_progress"}}

\* check_datetime < order_end and check_end > order_start, the new order
\* taken to last 60 minutes
is_busy(check_time, order) ==
    LET order_start == order.preferred_time
        order_end == order_start + order_duration(order)
        check_end == check_time + 60
    IN check_time < order_end /\ check_end > order_start

\* is_working and not is_busy, for the schedule the lookup found
is_available(master, found, check_date, check_time, sstore, ostore) ==
    /\ is_master_working_at_datetime(found, check_date, check_time, sstore)
    /\ ~\E c \in busy_orders(master, check_date, ostore) :
          is_busy(check_time, c)

\* GET with date and time: the masters reported is_available; a request
\* without date or time is answered 400
check_masters_availability(check_date, check_time) ==
    /\ last = NoOp
    /\ IF check_date = None \/ check_time = None
       THEN last' = [op |-> "check_masters_availability", pk |-> None,
                     outcome |-> "400", errors |-> {"date_time_required"}]
       ELSE \E found \in [Masters -> {x.pk : x \in db} \cup {None}] :
              /\ \A m \in Masters :
                   found[m] \in get_master_schedule_for_date(m, check_date, db)
              /\ last' = [op |-> "check_masters_availability", pk |-> None,
                          date |-> check_date, time |-> check_time,
                          outcome |-> "ok", errors |-> {},
                          masters |-> {m \in Masters :
                             is_available(m, found[m], check_date, check_time,
                                          db, orders)}]
    /\ UNCHANGED <<db, nextPk, today, family, call, orders, inflight>>

\* GET with date and an optional master_id: the slots that have an
\* available master, each with its available masters.  The list is cut to
\* three masters when no master_id is given; Masters has two.
get_available_time_slots(check_date, preferred_master_id) ==
    /\ last = NoOp
    /\ IF check_date = None
       THEN last' = [op |-> "get_available_time_slots", pk |-> None,
                     outcome |-> "400", errors |-> {"date_required"}]
       ELSE LET masters == IF preferred_master_id # None
                           THEN Masters \cap {preferred_master_id}
                           ELSE Masters
                available_masters(t) ==
                    {m \in masters :
                       \E found \in get_master_schedule_for_date(m, check_date,
                                                                 db) :
                          is_available(m, found, check_date, t, db, orders)}
            IN last' = [op |-> "get_available_time_slots", pk |-> None,
                        date |-> check_date, master |-> preferred_master_id,
                        outcome |-> "ok", errors |-> {},
                        available_slots |->
                            {<<t, available_masters(t)>> :
                               t \in {x \in TimeSlots :
                                        available_masters(x) # {}}}]
    /\ UNCHANGED <<db, nextPk, today, family, call, orders, inflight>>

\* The schedule table is one that a work_schedule_create request can leave:
\* empty, or one active schedule of master 1; master 2 has none
InitOrders ==
    /\ family \in 1..Len(OrderFamilies)
    /\ db \in {store \in StoresAfter(1, Families[1]) :
                 \A s \in store : s.master = 1 /\ s.is_active}
    /\ nextPk = Cardinality(db) + 1
    /\ today = 1
    /\ last = NoOp
    /\ call = NoCall
    /\ orders = {}
    /\ inflight = NoRequests

NextOrders ==
    \/ \E kind \in OrderFamilies[family] : order_create(kind)
    \/ \E id \in 1..MaxOrders, master_id \in MasterIds :
         autoservice_order_assign_master(id, master_id)
    \/ \E id \in 1..MaxOrders : autoservice_order_confirm(id)
    \/ \E id \in 1..MaxOrders : autoservice_order_cancel(id)
    \/ \E id \in 1..MaxOrders : user_order_cancel(id)
    \/ \E id \in 1..MaxOrders : autoservice_order_start(id)
    \/ \E id \in 1..MaxOrders : autoservice_order_complete(id)
    \/ Respond

SpecOrders == InitOrders /\ [][NextOrders]_vars

(***************************************************************************)
(* The availability views next to the order views (core/views.py           *)
(* check_masters_availability, get_available_time_slots)                   *)
(***************************************************************************)

InitAvailability ==
    /\ family = 1
    /\ db \in {store \in StoresAfter(1, Families[1]) :
                 \A s \in store : s.master = 1 /\ s.is_active}
    /\ nextPk = Cardinality(db) + 1
    /\ today = 1
    /\ last = NoOp
    /\ call = NoCall
    /\ orders = {}
    /\ inflight = NoRequests

NextAvailability ==
    \/ \E kind \in LongOrders : order_create(kind)
    \/ \E id \in 1..MaxOrders, master_id \in MasterIds :
         autoservice_order_assign_master(id, master_id)
    \/ \E id \in 1..MaxOrders : autoservice_order_confirm(id)
    \/ \E id \in 1..MaxOrders : autoservice_order_cancel(id)
    \/ \E id \in 1..MaxOrders : user_order_cancel(id)
    \/ \E id \in 1..MaxOrders : autoservice_order_start(id)
    \/ \E id \in 1..MaxOrders : autoservice_order_complete(id)
    \/ \E d \in AskDates \cup {None}, t \in AskTimes :
         check_masters_availability(d, t)
    \/ \E d \in AskDates \cup {None}, m \in MasterIds :
         get_available_time_slots(d, m)
    \/ Respond

SpecAvailability == InitAvailability /\ [][NextAvailability]_vars

(***************************************************************************)
(* Two creation requests served at the same time (core/views.py            *)
(* work_schedule_create).  Nothing in the view takes a lock or opens a     *)
(* transaction, so a request is three steps that each read or write the    *)
(* table as it is at that moment: form.is_valid(), the full_clean() of     *)
(* WorkSchedule.save(), and the INSERT.  A request that got as far as      *)
(* full_clean() remembers in "seen" the rows the table held then.          *)
(***************************************************************************)

PksOf(store) == {s.pk : s \in store}

create_is_valid(a, post) ==
    /\ inflight[a].step = "idle"
    /\ \E ovl \in FormOverlapOutcomes(post, None, db) :
         LET r == is_valid(NewInstance, post, db, today, ovl)
         IN inflight' = [inflight EXCEPT ![a] =
              IF r.crash THEN [step |-> "answered", outcome |-> "crash"]
              ELSE IF r.errors # {}
                   THEN [step |-> "answered", outcome |-> "invalid"]
              ELSE [step |-> "valid", instance |-> r.instance]]
    /\ UNCHANGED <<db, nextPk, today, family, last, call, orders>>

create_full_clean(a) ==
    /\ inflight[a].step = "valid"
    /\ LET sv == save(inflight[a].instance, db, today)
       IN inflight' = [inflight EXCEPT ![a] =
            IF ~sv.ok THEN [step |-> "answered", outcome |-> "crash"]
            ELSE [step |-> "clean", instance |-> sv.row, seen |-> PksOf(db)]]
    /\ UNCHANGED <<db, nextPk, today, family, last, call, orders>>

create_insert(a) ==
    /\ inflight[a].step = "clean"
    /\ nextPk <= MaxSchedules
    /\ LET self == inflight[a].instance
           taken == \E s \in db : /\ s.master = self.master
                                  /\ s.schedule_type = self.schedule_type
                                  /\ s.start_date = self.start_date
                                  /\ s.custom_days = self.custom_days
       IN IF taken
          THEN /\ inflight' = [inflight EXCEPT ![a] =
                                 [step |-> "answered", outcome |-> "crash"]]
               /\ UNCHANGED <<db, nextPk>>
          ELSE /\ db' = db \cup {[self EXCEPT !.pk = nextPk]}
               /\ nextPk' = nextPk + 1
               /\ inflight' = [inflight EXCEPT ![a] =
                                 [step |-> "answered", outcome |-> "saved",
                                  pk |-> nextPk, seen |-> inflight[a].seen]]
    /\ UNCHANGED <<today, family, last, call, orders>>

InitCreateRace ==
    /\ family \in 1..Len(Families)
    /\ db = {}
    /\ nextPk = 1
    /\ today \in ClockDates
    /\ last = NoOp
    /\ call = NoCall
    /\ orders = {}
    /\ inflight = NoRequests

NextCreateRace ==
    \/ \E a \in Admins, post \in Posts(Families[family]) : create_is_valid(a, post)
    \/ \E a \in Admins : create_full_clean(a)
    \/ \E a \in Admins : create_insert(a)

SpecCreateRace == InitCreateRace /\ [][NextCreateRace]_vars

(***************************************************************************)
(* Two assignment requests served at the same time (core/views.py          *)
(* autoservice_order_assign_master).  The view reads the order and the     *)
(* master's orders, checks them, and later writes the order it read with   *)
(* order.save(); nothing is locked in between.  A request that passed the  *)
(* checks remembers in "seen" the orders the master had when it read.      *)
(***************************************************************************)

\* The tables of up to MaxOrders orders that order_create and
\* autoservice_order_confirm leave: confirmed, no master assigned yet
ConfirmedOrders(kinds) ==
    UNION {{{[id |-> i, preferred_date |-> f[i][1],
              preferred_time |-> f[i][2], estimated_duration |-> f[i][3],
              status |-> "confirmed", assigned_master |-> None,
              completed_at |-> None] : i \in 1..n} : f \in [1..n -> kinds]} :
           n \in 1..MaxOrders}

assign_check(a, order_id, master_id) ==
    /\ inflight[a].step = "idle"
    /\ \E o \in orders : o.id = order_id
    /\ LET order == OrderById(orders, order_id)
           rejected == [step |-> "answered", outcome |-> "rejected"]
       IN IF master_id \notin Masters
          THEN inflight' = [inflight EXCEPT ![a] = rejected]
          ELSE \E first, second \in
                    get_master_schedule_for_date(master_id,
                                                 order.preferred_date, db) :
                 LET working == is_master_working_at_datetime(
                                    first, order.preferred_date,
                                    order.preferred_time, db)
                     off == schedule_check(working, second, order, db)
                     busy == \E c \in conflicting_orders(order, master_id,
                                                         orders) :
                                time_conflict(order, c)
                 IN inflight' = [inflight EXCEPT ![a] =
                      IF off # {} \/ busy THEN rejected
                      ELSE [step |-> "checked", order |-> order,
                            master |-> master_id,
                            seen |-> {c.id : c \in {x \in orders :
                                        x.assigned_master = master_id}}]]
    /\ UNCHANGED <<db, nextPk, today, family, last, call, orders>>

assign_save(a) ==
    /\ inflight[a].step = "checked"
    /\ LET order == inflight[a].order
           master_id == inflight[a].master
       IN /\ orders' = {o \in orders : o.id # order.id} \cup
                         {[order EXCEPT !.assigned_master = master_id]}
          /\ inflight' = [inflight EXCEPT ![a] =
                            [step |-> "answered", outcome |-> "assigned",
                             pk |-> order.id, master |-> master_id,
                             seen |-> inflight[a].seen]]
    /\ UNCHANGED <<db, nextPk, today, family, last, call>>

InitAssignRace ==
    /\ family \in 1..Len(OrderFamilies)
    /\ db \in {store \in StoresAfter(1, Families[1]) :
                 \A s \in store : s.master = 1 /\ s.is_active}
    /\ nextPk = Cardinality(db) + 1
    /\ today = 1
    /\ last = NoOp
    /\ call = NoCall
    /\ orders \in ConfirmedOrders({k \in OrderFamilies[family] : k[1] > today})
    /\ inflight = NoRequests

NextAssignRace ==
    \/ \E a \in Admins, id \in 1..MaxOrders, m \in MasterIds \ {None} :
         assign_check(a, id, m)
    \/ \E a \in Admins : assign_save(a)

SpecAssignRace == InitAssignRace /\ [][NextAssignRace]_vars


(***************************************************************************)
(* Properties                                                              *)
(***************************************************************************)
Max(a, b) == IF a >= b THEN a ELSE b

\* The validity periods [start_date, end_date] of a and b have a calendar
\* date in common; a period without end_date has no last day
SharesDate(a, b) ==
    LET lo == Max(a.start_date, b.start_date) IN
    /\ (a.end_date = None \/ lo <= a.end_date)
    /\ (b.end_date = None \/ lo <= b.end_date)

WeekdaysOf(s) == Range(get_working_days(s))

WindowsOverlap(a, b) ==
    a.start_time < b.end_time /\ b.start_time < a.end_time

Submitted(l) == l.op \in {"create", "edit"}

\* The stored schedules a submission competes with: active, of the same
\* master, not the edited row itself
Rivals(l, store) ==
    {t \in store : t.master = l.post.master /\ t.is_active /\ t.pk # l.pk}

OverlapErrors == {"overlap", "m_overlap"}

\* C1: for every master and every date at most one active schedule of the
\* master satisfies is_working_day, whatever validated creations, edits and
\* deletions came before.
C1_OneWorkingSchedulePerDate ==
    \A m \in Families[family].masters, d \in QueryDates :
        Cardinality({s \in db : s.master = m /\ is_working_day(s, d)}) <= 1

\* C2: a submission that creates or activates a schedule is not saved when
\* the master has another active schedule whose period, weekday set and
\* daily window all overlap the submitted ones.
C2_ConflictingSubmissionRejected ==
    [][(/\ Submitted(last')
        /\ last'.post.is_active
        /\ \E t \in Rivals(last', db) :
             /\ SharesDate(last'.post, t)
             /\ WeekdaysOf(Unsaved(last'.post)) \cap WeekdaysOf(t) # {}
             /\ WindowsOverlap(last'.post, t))
       => last'.outcome # "saved"]_vars

\* C3 as stated: a submission is rejected for overlap only if some other
\* active schedule of the master overlaps it in period, weekday set and
\* daily window at once.
C3_RejectedOnlyIfAllThreeOverlap ==
    [][(Submitted(last') /\ last'.errors \cap OverlapErrors # {})
       => \E t \in Rivals(last', db) :
            /\ SharesDate(last'.post, t)
            /\ WeekdaysOf(Unsaved(last'.post)) \cap WeekdaysOf(t) # {}
            /\ WindowsOverlap(last'.post, t)]_vars

\* C3 amended: a submission whose only errors are overlap errors has a
\* period that shares a date with the period of another active schedule of
\* the same master; weekday sets and daily windows play no part.
C3_RejectedOnlyIfPeriodsOverlap ==
    [][(/\ Submitted(last')
        /\ last'.errors # {}
        /\ last'.errors \subseteq OverlapErrors)
       => \E t \in Rivals(last', db) : SharesDate(last'.post, t)]_vars

\* C3 witness: a submission rejected for overlap alone although its weekday
\* set is disjoint from that of every other active schedule of the master
C3_Witness ==
    /\ Submitted(last)
    /\ last.outcome = "invalid"
    /\ last.errors # {}
    /\ last.errors \subseteq OverlapErrors
    /\ Rivals(last, db) # {}
    /\ \A t \in Rivals(last, db) :
         WeekdaysOf(Unsaved(last.post)) \cap WeekdaysOf(t) = {}


\* The conflicts of self as C4 states them: same master, active, another
\* row, periods with a common date, common weekday, daily windows that
\* overlap (touching windows do not)
ConflictsAsStated(self, store) ==
    {t \in store :
        /\ t.master = self.master
        /\ t.is_active
        /\ t.pk # self.pk
        /\ SharesDate(self, t)
        /\ WeekdaysOf(self) \cap WeekdaysOf(t) # {}
        /\ ~(self.end_time <= t.start_time \/ t.end_time <= self.start_time)}

\* C4: get_conflicts(S) returns exactly the active schedules of the same
\* master, other than S, that overlap S in period, weekday set and daily
\* window.
C4_ConflictsExactlyTheOverlapping ==
    call.fn = "get_conflicts"
    => call.ret = ConflictsAsStated(call.self, db)

\* C5: for two stored active schedules A and B of one master, B is among
\* the conflicts of A exactly when A is among the conflicts of B.
C5_ConflictsSymmetric ==
    (call.fn = "get_conflicts" /\ call.self \in db /\ call.self.is_active)
    => \A b \in db :
         (b.master = call.self.master /\ b.is_active /\ b.pk # call.self.pk)
         => (b \in call.ret <=> call.self \in get_conflicts(b, db))

\* The working-day rule as C6 states it
WorkingDayAsStated(s, date) ==
    /\ s.is_active
    /\ date >= s.start_date
    /\ (s.end_date = None \/ date <= s.end_date)
    /\ isoweekday(date) \in WeekdaysOf(s)

\* C6: is_working_day is true exactly for an active schedule, a date inside
\* its period and a weekday of its weekday set; so it is false before
\* start_date, after a set end_date and for an inactive schedule.
C6_WorkingDayRule ==
    call.fn = "is_working_day"
    => /\ call.ret <=> WorkingDayAsStated(call.self, call.date)
       /\ call.date < call.self.start_date => ~call.ret
       /\ (call.self.end_date # None /\ call.date > call.self.end_date)
          => ~call.ret
       /\ ~call.self.is_active => ~call.ret

\* C6 witness: an active schedule asked about a date after its end_date
\* that falls on one of its weekdays
C6_Witness ==
    /\ call.fn = "is_working_day"
    /\ call.self.is_active
    /\ call.self.end_date # None
    /\ call.date > call.self.end_date
    /\ isoweekday(call.date) \in WeekdaysOf(call.self)
    /\ ~call.ret

\* C7: is_working_at_time is false when the date is no working day and
\* otherwise true exactly from start_time to end_time, both included: a
\* 09:00-18:00 schedule works at 09:00 and 18:00, not at 08:59 and 18:01.
C7_WorkingAtTimeInclusive ==
    call.fn = "is_working_at_time"
    => /\ ~WorkingDayAsStated(call.self, call.date) => ~call.ret
       /\ WorkingDayAsStated(call.self, call.date)
          => /\ call.ret <=> (call.self.start_time <= call.time
                              /\ call.time <= call.self.end_time)
             /\ (call.self.start_time = 540 /\ call.self.end_time = 1080)
                => /\ call.time \in {540, 1080} => call.ret
                   /\ call.time \in {539, 1081} => ~call.ret

\* C7 witness: a 09:00-18:00 schedule asked about 18:00 of a working day
C7_Witness ==
    /\ call.fn = "is_working_at_time"
    /\ call.self.start_time = 540
    /\ call.self.end_time = 1080
    /\ WorkingDayAsStated(call.self, call.date)
    /\ call.time = 1080
    /\ call.ret

\* The schedules of the master that C8 lets the lookup return
Applicable(master, date, store) ==
    {s \in store : /\ s.master = master
                   /\ s.is_active
                   /\ s.start_date <= date
                   /\ (s.end_date = None \/ s.end_date >= date)
                   /\ isoweekday(date) \in WeekdaysOf(s)}

\* C8: get_master_schedule_for_date returns only an active schedule of the
\* master whose period holds the date and for which the date is a working
\* day, and None exactly when the master has no such schedule.
C8_LookupReturnsApplicable ==
    call.fn = "get_master_schedule_for_date"
    => LET ok == Applicable(call.master, call.date, db) IN
       /\ call.ret # None => \E s \in ok : s.pk = call.ret
       /\ call.ret = None <=> ok = {}

\* C8 witness: a schedule is found in a table that also holds a schedule
\* the lookup must pass over
C8_Witness ==
    /\ call.fn = "get_master_schedule_for_date"
    /\ call.ret # None
    /\ \E s \in db : s \notin Applicable(call.master, call.date, db)

\* The table of end-to-end scenario 1: one active weekly schedule of
\* master 1 from 2025-01-01, open-ended, 09:00-18:00
ScenarioOneTable ==
    {[pk |-> 1, master |-> 1, schedule_type |-> "weekly",
      start_date |-> 1, end_date |-> None, custom_days |-> <<>>,
      start_time |-> 540, end_time |-> 1080, is_active |-> TRUE]}

\* C9: is_master_working_at_datetime is false when the lookup finds no
\* schedule and otherwise is is_working_at_time of the schedule found; in
\* scenario 1 it is true on Monday 2025-01-06 10:00 and false on Sunday
\* 2025-01-05 10:00.
C9_MasterWorkingFollowsLookup ==
    call.fn = "is_master_working_at_datetime"
    => /\ call.schedule = None => ~call.ret
       /\ call.schedule # None
          => \E s \in db :
               /\ s.pk = call.schedule
               /\ call.ret <=> /\ WorkingDayAsStated(s, call.date)
                               /\ s.start_time <= call.time
                               /\ call.time <= s.end_time
       /\ (db = ScenarioOneTable /\ call.master = 1 /\ call.time = 600)
          => /\ call.date = 6 => call.ret
             /\ call.date = 5 => ~call.ret

\* C9 witness: scenario 1 asked about Monday 2025-01-06 10:00
C9_Witness ==
    /\ call.fn = "is_master_working_at_datetime"
    /\ db = ScenarioOneTable
    /\ call.master = 1
    /\ call.date = 6
    /\ call.time = 600
    /\ call.ret

\* C10: get_working_days gives Monday to Friday for weekly, all seven days
\* for monthly, {1,3,5} for custom "1,3,5" and nothing for custom "x,3";
\* instances with the same schedule_type and custom_days get the same days.
C10_WorkingDaysByType ==
    call.fn = "get_working_days"
    => /\ call.self.schedule_type = "weekly" => Range(call.ret) = 1..5
       /\ call.self.schedule_type = "monthly" => Range(call.ret) = 1..7
       /\ (call.self.schedule_type = "custom" /\ call.self.custom_days = Days135)
          => Range(call.ret) = {1, 3, 5}
       /\ (call.self.schedule_type = "custom" /\ call.self.custom_days = DaysX3)
          => call.ret = <<>>
       /\ \A o \in Instances :
            (/\ o.schedule_type = call.self.schedule_type
             /\ o.custom_days = call.self.custom_days)
            => get_working_days(o) = call.ret

\* C10 witness: a custom schedule with custom_days "x,3" is resolved
C10_Witness ==
    /\ call.fn = "get_working_days"
    /\ call.self.schedule_type = "custom"
    /\ call.self.custom_days = DaysX3
    /\ call.ret = <<>>

\* C11: whatever the schedule, get_working_days returns weekdays from 1 to
\* 7 only; a custom_days list with a number outside 1..7 (such as 8) counts
\* as malformed and gives the empty list.
C11_WorkingDaysWithinWeek ==
    call.fn = "get_working_days"
    => /\ Range(call.ret) \subseteq 1..7
       /\ (/\ call.self.schedule_type = "custom"
           /\ ParseDays(call.self.custom_days).ok
           /\ ~DaysInRange(ParseDays(call.self.custom_days).days))
          => call.ret = <<>>

\* C12: a custom schedule whose custom_days is empty or holds a value
\* outside 1..7 is not saved, so every stored custom schedule has a
\* non-empty custom_days of weekdays 1..7, and a custom schedule without
\* days never resolves to working days.
C12_CustomDaysRequired ==
    /\ (/\ last.op \in {"create", "edit"}
        /\ last.post.schedule_type = "custom"
        /\ \/ Strip(last.post.custom_days) = <<>>
           \/ ~ParseDays(Strip(last.post.custom_days)).ok
           \/ ~DaysInRange(ParseDays(Strip(last.post.custom_days)).days))
       => last.outcome # "saved"
    /\ \A s \in db :
         s.schedule_type = "custom"
         => /\ s.custom_days # <<>>
            /\ ParseDays(s.custom_days).ok
            /\ DaysInRange(ParseDays(s.custom_days).days)
            /\ get_working_days(s) # <<>>

DurationErrors ==
    {"end_not_after_start", "day_over_12h", "day_under_1h",
     "m_time_order", "m_day_over_12h", "m_day_under_1h"}

\* C13: the daily window of a submission passes the duration validation
\* exactly when end_time - start_time is from 60 to 720 minutes: a window
\* outside that range is never saved and a validated submission with such a
\* window carries a duration error, a window inside it carries none (so
\* 10:00-22:00 and 09:00-10:00 pass, 10:00-22:01, 09:00-09:59 and
\* 06:00-23:00 fail).
C13_DurationBetween1And12Hours ==
    [][Submitted(last')
       => LET minutes == last'.post.end_time - last'.post.start_time IN
          /\ (minutes < 60 \/ minutes > 720)
             => /\ last'.outcome # "saved"
                /\ last'.outcome = "invalid"
                   => last'.errors \cap DurationErrors # {}
          /\ (60 <= minutes /\ minutes <= 720)
             => last'.errors \cap DurationErrors = {}]_vars

\* C13 witness: a window of exactly twelve hours, 10:00-22:00, is saved
C13_Witness ==
    /\ Submitted(last)
    /\ last.post.start_time = 600
    /\ last.post.end_time = 1320
    /\ last.outcome = "saved"

\* The form does not let the submission l through, whatever step 4 does
FormRejects(l, store, now) ==
    LET data == [l.post EXCEPT !.custom_days = Strip(l.post.custom_days)] IN
    \A ovl \in FormOverlapOutcomes(l.post, l.pk, store) :
       LET f == WorkScheduleForm_clean(data, l.pk, store, now, ovl)
       IN f.crash \/ f.errors # {}

\* WorkSchedule.clean does not let the candidate of l through
ModelRejects(l, store, now) ==
    LET m == WorkSchedule_clean([Unsaved(l.post) EXCEPT !.pk = l.pk],
                                store, now)
    IN m.crash \/ m.errors # {}

PastErrors == {"start_in_past", "m_start_in_past"}

\* C15: a creation with start_date before today is never saved, with or
\* without end_date; the error about a date in the past is reported only
\* for a start_date before today, so a start_date equal to today does not
\* get it.
C15_CreateInPastRejected ==
    [][last'.op = "create"
       => /\ last'.post.start_date < today => last'.outcome # "saved"
          /\ last'.errors \cap PastErrors # {}
             => last'.post.start_date < today]_vars

\* C15 witness: a creation without end_date whose start_date is before
\* today is rejected for its date
C15_Witness ==
    /\ last.op = "create"
    /\ last.post.end_date = None
    /\ last.post.start_date < today
    /\ last.outcome = "invalid"
    /\ "m_start_in_past" \in last.errors

\* C16: the edit of a stored schedule is exempt from the past-date check: a
\* submission through work_schedule_edit, also one whose start_date is
\* before today, is never answered with the error about a date in the past.
C16_EditExemptFromPastCheck ==
    [][last'.op = "edit" => last'.errors \cap PastErrors = {}]_vars

\* C17: a custom submission with custom_days "1,2,3,4,5,6,7" that breaks no
\* other rule is saved; the remark about missing rest days is a warning
\* and does not keep the schedule from being stored.
C17_SevenDaysAcceptedWithWarning ==
    [][(/\ Submitted(last')
        /\ last'.post.schedule_type = "custom"
        /\ Strip(last'.post.custom_days) = DaysAll
        /\ last'.outcome # "crash"
        /\ last'.errors \subseteq {"no_rest_day"})
       => last'.outcome = "saved"]_vars

\* The field rules C18 lists, for the submission l against the table store
StatedRules(l, store, now) ==
    LET c == l.post
        days == ParseDays(Strip(c.custom_days))
        minutes == c.end_time - c.start_time
    IN /\ Rivals(l, store) = {}
       /\ c.start_date >= now
       /\ c.end_date # None
          => c.end_date >= c.start_date /\ c.end_date - c.start_date <= 365
       /\ c.start_time < c.end_time
       /\ 60 <= minutes /\ minutes <= 720
       /\ \/ c.schedule_type \in {"weekly", "monthly"}
          \/ /\ c.schedule_type = "custom"
             /\ Strip(c.custom_days) # <<>>
             /\ days.ok
             /\ DaysInRange(days.days)
             /\ Len(days.days) < 7

\* The rules of the code C18 does not list: the shortest weekly period,
\* the longest custom period, and the unique key of the table
UnstatedRules(l, store) ==
    LET c == l.post IN
    /\ (c.schedule_type = "weekly" /\ c.end_date # None)
       => c.end_date - c.start_date >= 14
    /\ (c.schedule_type = "custom" /\ c.end_date # None)
       => c.end_date - c.start_date <= 90
    /\ ~\E s \in store : /\ s.pk # l.pk
                         /\ s.master = c.master
                         /\ s.schedule_type = c.schedule_type
                         /\ s.start_date = c.start_date
                         /\ s.custom_days = Strip(c.custom_days)

C19_NotWorkingNotAssigned ==
    [][(/\ last'.op = "assign_master"
        /\ last'.outcome # "404"
        /\ last'.master \in Masters
        /\ last'.working = FALSE)
       => /\ last'.outcome = "rejected"
          /\ orders' = orders]_vars

\* C19 witness: a master whose schedule covers the day is refused for an
\* order at 18:30, after the end of the working day
C19_Witness ==
    /\ last.op = "assign_master"
    /\ last.outcome = "rejected"
    /\ "not_working_time" \in last.errors
    /\ last.working = FALSE
    /\ OrderById(orders, last.pk).assigned_master # last.master

Min(a, b) == IF a <= b THEN a ELSE b

\* The minutes an order takes: estimated_duration, or 60 when that is 0
MinutesOf(o) == IF o.estimated_duration = 0 THEN 60 ELSE o.estimated_duration

\* The half-open intervals [preferred_time, preferred_time + minutes) of
\* a and b have an instant in common
IntervalsMeet(a, b) ==
    Max(a.preferred_time, b.preferred_time)
      < Min(a.preferred_time + MinutesOf(a), b.preferred_time + MinutesOf(b))

\* The orders that keep master busy for order, as C20 states them
BusyWith(order, master, ostore) ==
    {c \in ostore : /\ c.id # order.id
                    /\ c.assigned_master = master
                    /\ c.preferred_date = order.preferred_date
                    /\ c.status \in {"confirmed", "in_progress"}
                    /\ IntervalsMeet(c, order)}

\* C20: an assignment to a master who works at the order's time is
\* rejected exactly when the master has another order on the same date,
\* confirmed or in progress, whose interval [preferred_time,
\* preferred_time + duration) meets that of the order; 10:30 for 60
\* minutes against 10:00 for 60 minutes is refused, 11:00 for 30 minutes
\* against it is not.
C20_RejectedIffOrdersIntersect ==
    [][(/\ last'.op = "assign_master"
        /\ last'.outcome # "404"
        /\ last'.master \in Masters
        /\ last'.working = TRUE)
       => LET order == OrderById(orders, last'.pk)
              busy == BusyWith(order, last'.master, orders) # {}
          IN /\ last'.outcome = "rejected" <=> busy
             /\ "busy" \in last'.errors <=> busy
             /\ ~busy => OrderById(orders', last'.pk).assigned_master
                             = last'.master]_vars

\* C20 witness: the order at 10:30 for 60 minutes is refused for a master
\* who has a confirmed or running order at 10:00 for 60 minutes
C20_Witness ==
    /\ last.op = "assign_master"
    /\ last.outcome = "rejected"
    /\ "busy" \in last.errors
    /\ OrderById(orders, last.pk).preferred_time = 630
    /\ \E c \in orders : /\ c.assigned_master = last.master
                         /\ c.status \in {"confirmed", "in_progress"}
                         /\ c.preferred_time = 600
                         /\ c.estimated_duration = 60

\* C21: a submission that is not saved, carries no error other than an
\* overlap error, and whose period shares a date with another active
\* schedule of the same master is answered with a validation error naming
\* the overlap, never with a crash; also when that schedule has no
\* end_date.
C21_OverlapIsValidationError ==
    [][(/\ Submitted(last')
        /\ last'.outcome # "saved"
        /\ last'.errors \subseteq OverlapErrors
        /\ \E t \in Rivals(last', db) : SharesDate(last'.post, t))
       => /\ last'.outcome = "invalid"
          /\ last'.errors # {}]_vars


\* A bounded schedule of some master that is in force
BoundedActive(s) == s.is_active /\ s.end_date # None

\* C22: creation is a read followed by a write with nothing held in
\* between: two rows of bounded active schedules of one master that share a
\* date are both in the table only when they were written by two requests
\* neither of which had the other's row in the table it validated against,
\* and such a pair of requests exists.
C22_ConflictOnlyFromUnseenRival ==
    \A a \in Admins, b \in Admins :
        (/\ a # b
         /\ inflight[a].step = "answered" /\ inflight[a].outcome = "saved"
         /\ inflight[b].step = "answered" /\ inflight[b].outcome = "saved"
         /\ \E s \in db, t \in db :
              /\ s.pk = inflight[a].pk /\ t.pk = inflight[b].pk
              /\ s.master = t.master
              /\ BoundedActive(s) /\ BoundedActive(t)
              /\ SharesDate(s, t))
        => /\ inflight[b].pk \notin inflight[a].seen
           /\ inflight[a].pk \notin inflight[b].seen

C22_Witness ==
    /\ inflight[1].step = "answered" /\ inflight[1].outcome = "saved"
    /\ inflight[2].step = "answered" /\ inflight[2].outcome = "saved"
    /\ \E s \in db, t \in db :
         /\ s.pk = inflight[1].pk /\ t.pk = inflight[2].pk
         /\ s.master = t.master
         /\ BoundedActive(s) /\ BoundedActive(t)
         /\ SharesDate(s, t)
         /\ WeekdaysOf(s) \cap WeekdaysOf(t) # {}
         /\ WindowsOverlap(s, t)


\* Two orders of one master, both confirmed or in progress, on the same
\* date and with meeting time intervals
DoubleBooked(x, y) ==
    /\ x.id # y.id
    /\ x.assigned_master # None
    /\ x.assigned_master = y.assigned_master
    /\ x.status \in {"confirmed", "in_progress"}
    /\ y.status \in {"confirmed", "in_progress"}
    /\ x.preferred_date = y.preferred_date
    /\ IntervalsMeet(x, y)

\* C23: the assignment reads the master's orders, checks them and writes
\* assigned_master with nothing locked in between: two confirmed orders
\* with meeting intervals are both assigned to one master by two requests
\* only when neither request saw the other's assignment when it read, and
\* such a pair of requests exists.
C23_DoubleBookingOnlyFromUnseenRival ==
    \A a \in Admins, b \in Admins :
        (/\ a # b
         /\ inflight[a].step = "answered" /\ inflight[a].outcome = "assigned"
         /\ inflight[b].step = "answered" /\ inflight[b].outcome = "assigned"
         /\ \E x \in orders, y \in orders :
              /\ x.id = inflight[a].pk /\ y.id = inflight[b].pk
              /\ x.assigned_master = inflight[a].master
              /\ y.assigned_master = inflight[b].master
              /\ DoubleBooked(x, y))
        => /\ inflight[b].pk \notin inflight[a].seen
           /\ inflight[a].pk \notin inflight[b].seen

C23_Witness ==
    /\ inflight[1].step = "answered" /\ inflight[1].outcome = "assigned"
    /\ inflight[2].step = "answered" /\ inflight[2].outcome = "assigned"
    /\ \E x \in orders, y \in orders :
         /\ x.id = inflight[1].pk /\ y.id = inflight[2].pk
         /\ x.status = "confirmed" /\ y.status = "confirmed"
         /\ DoubleBooked(x, y)


\* C24: whatever orders are created, assigned, confirmed, started,
\* completed and cancelled one after another, no master holds two orders
\* that are confirmed or in progress on the same date with meeting
\* intervals; masters may be assigned while the orders are pending.
C24_NoDoubleBooking ==
    \A x \in orders, y \in orders : ~DoubleBooked(x, y)


\* The status changes the operations may make: operation, status before,
\* status after
AllowedEdges ==
    {<<"confirm", "pending", "confirmed">>,
     <<"start", "confirmed", "in_progress">>,
     <<"complete", "in_progress", "completed">>,
     <<"cancel", "pending", "cancelled">>,
     <<"cancel", "confirmed", "cancelled">>,
     <<"user_cancel", "pending", "cancelled">>,
     <<"user_cancel", "confirmed", "cancelled">>}

\* C25: the status of an order changes only from pending to confirmed by
\* confirm, from confirmed to in_progress by start, from in_progress to
\* completed by complete, and from pending or confirmed to cancelled by a
\* cancellation of the autoservice or of the client; completed and
\* cancelled are final, and an operation on an order in another status
\* leaves the status as it is.
C25_StatusChangesAlongAllowedEdges ==
    [][/\ \A o \in orders, n \in orders' :
            (o.id = n.id /\ o.status # n.status)
            => /\ last'.pk = o.id
               /\ <<last'.op, o.status, n.status>> \in AllowedEdges
       /\ \A o \in orders :
            (/\ last'.op \in {e[1] : e \in AllowedEdges}
             /\ last'.pk = o.id
             /\ ~\E e \in AllowedEdges : e[1] = last'.op /\ e[2] = o.status)
            => /\ last'.outcome = "rejected"
               /\ \E n \in orders' : n.id = o.id /\ n.status = o.status]_vars

C25_Witness ==
    /\ last.op = "complete"
    /\ last.outcome = "saved"
    /\ \E o \in orders : /\ o.id = last.pk
                         /\ o.status = "completed"
                         /\ o.assigned_master # None


\* C26: an order that is in progress or completed has a master assigned,
\* and completed_at is set exactly when the status is completed.
C26_RunningOrdersHaveMaster ==
    \A o \in orders :
        /\ o.status \in {"in_progress", "completed"} => o.assigned_master # None
        /\ (o.completed_at # None) <=> (o.status = "completed")

C26_Witness ==
    /\ \E o \in orders : o.status = "in_progress" /\ o.assigned_master \in Masters
    /\ \E o \in orders : o.status = "completed" /\ o.completed_at # None


\* C27: is_master_working_at_datetime answers True exactly when some active
\* schedule of the master satisfies is_working_at_time for the moment
\* asked; a moment inside the hours of only the second of two schedules
\* that apply to the date is reported as working.
C27_WorkingIffSomeScheduleWorks ==
    call.fn = "is_master_working_at_datetime"
    => (call.ret <=> \E s \in db : /\ s.master = call.master
                                   /\ s.is_active
                                   /\ is_working_at_time(s, call.date, call.time))


\* C28: _periods_overlap(self, other) is True exactly when the two periods
\* have a calendar date in common, a period without end_date running on
\* for ever; a period without end that starts inside a bounded period
\* overlaps it.
C28_PeriodsOverlapIffShareDate ==
    call.fn = "_periods_overlap"
    => (call.ret <=> SharesDate(call.self, call.other))


\* C29: an assignment request changes at most assigned_master of its
\* order: when it succeeds the order's row differs from the row before in
\* assigned_master alone, which is the requested master; when it is
\* rejected the orders are as before; the other orders and the schedules
\* are as before in both cases.
C29_AssignmentFrame ==
    [][last'.op = "assign_master"
       => /\ db' = db
          /\ IF last'.outcome = "assigned"
             THEN \E o \in orders :
                    /\ o.id = last'.pk
                    /\ orders' = (orders \ {o}) \cup
                          {[o EXCEPT !.assigned_master = last'.master]}
             ELSE orders' = orders]_vars

C29_Witness ==
    /\ last.op = "assign_master"
    /\ last.outcome = "assigned"
    /\ Cardinality(orders) = 2
    /\ \E o \in orders : /\ o.id = last.pk
                         /\ o.assigned_master = last.master
                         /\ o.status = "confirmed"


\* C30: a master whom the availability views report available for the
\* date and time of an order is accepted by an assignment of that order
\* made on the same tables, whatever estimated_duration the order has.
C30_AvailableImpliesAssignable ==
    [][(/\ last'.op = "assign_master"
        /\ last'.outcome # "404"
        /\ last'.master \in Masters
        /\ LET o == OrderById(orders, last'.pk) IN
           \A found \in get_master_schedule_for_date(last'.master,
                                                     o.preferred_date, db) :
              is_available(last'.master, found, o.preferred_date,
                           o.preferred_time, db, orders))
       => last'.outcome = "assigned"]_vars

====
